---- MODULE Spec2Model ----
(***************************************************************************)
(* Model of scripts/pyxmatlab_tools/sync.py: the compatibility check of    *)
(* the stored dependency lock (check_compilation), the full relock (lock), *)
(* the JSON lock store (get_compilation, get_compilation_key,              *)
(* get_lockfile) and the rendering of one lock fragment (compile,          *)
(* get_uv_version).                                                        *)
(*                                                                         *)
(* Text is a sequence of lexemes (TLA+ strings): "\n" is the newline, " "  *)
(* one blank, "    " an indentation, and every other lexeme a run of       *)
(* characters without white space: "foo==1.0\n" is the sequence            *)
(* <<"foo", "==", "1", ".", "0", "\n">>.                                    *)
(* A line is the lexemes between two newlines.  The regular expressions of *)
(* the source are all anchored to whole lines ((?m)^...$), so they are     *)
(* modelled as predicates on lines.                                        *)
(***************************************************************************)
EXTENDS Integers, Sequences, FiniteSets, TLC

NL == "\n"
\* one blank
WS == " "
\* an indentation: a run of four blanks
IND == "    "

\* ------------------------------------------------------------- str methods

RECURSIVE Join(_, _)
\* sep.join(parts): parts is a sequence of texts
Join(sep, parts) ==
    IF parts = <<>> THEN <<>>
    ELSE IF Len(parts) = 1 THEN parts[1]
    ELSE parts[1] \o sep \o Join(sep, Tail(parts))

\* index of the first occurrence of lexeme c in text t, 0 when there is none
FirstIndex(t, c) ==
    IF \E k \in 1..Len(t) : t[k] = c
    THEN CHOOSE k \in 1..Len(t) : t[k] = c /\ \A j \in 1..(k - 1) : t[j] # c
    ELSE 0

RECURSIVE Split(_, _)
\* str.split(sep): always at least one part
Split(t, sep) ==
    LET k == FirstIndex(t, sep)
    IN  IF k = 0 THEN <<t>>
        ELSE <<SubSeq(t, 1, k - 1)>> \o Split(SubSeq(t, k + 1, Len(t)), sep)

RECURSIVE splitlines(_)
\* str.splitlines(): no part for the empty text, nor after a final newline
splitlines(t) ==
    IF t = <<>> THEN <<>>
    ELSE LET k == FirstIndex(t, NL)
         IN  IF k = 0 THEN <<t>>
             ELSE <<SubSeq(t, 1, k - 1)>> \o splitlines(SubSeq(t, k + 1, Len(t)))

IsSpace(c) == c \in {WS, IND, NL}

RECURSIVE lstrip(_)
lstrip(t) == IF t # <<>> /\ IsSpace(t[1]) THEN lstrip(Tail(t)) ELSE t

RECURSIVE rstrip(_)
rstrip(t) ==
    IF t # <<>> /\ IsSpace(t[Len(t)]) THEN rstrip(SubSeq(t, 1, Len(t) - 1)) ELSE t

\* str.strip()
strip(t) == rstrip(lstrip(t))

\* `d in text` for two str values
Contains(text, d) ==
    \E k \in 0..(Len(text) - Len(d)) : SubSeq(text, k + 1, k + Len(d)) = d

\* [f(x) for x in s]
StripAll(s) == [k \in 1..Len(s) |-> strip(s[k])]

\* ------------------------------------------------------------------ lexemes

\* lexemes that are a run of letters and digits
Alnum == {"foo", "bar", "baz", "a", "b", "x", "A", "B", "0", "1", "2"}
\* the other characters a package name may hold
NamePunct == {".", "-", "_"}
\* lexemes of exactly one character
OneChar == {"a", "b", "x", "A", "B", "0", "1", "2", ".", "-", "_", WS}

\* str.casefold() of a lexeme, as the (?i) flag compares
Fold(c) == CASE c = "A" -> "a" [] c = "B" -> "b" [] OTHER -> c

\* ------------------------------------------------------- regular expressions

\* UV_PAT = (?m)^# uv\s(?P<version>.+)$ on one line
UvMatches(line) ==
    /\ Len(line) >= 5
    /\ SubSeq(line, 1, 3) = <<"#", WS, "uv">>
    /\ line[4] = WS
\* the group taken one character early: (?P<version>\s.+)
UvVersionGroup_FromBlank(line) == SubSeq(line, 4, Len(line))
\* match["version"]
UvVersionGroup(line) == SubSeq(line, 5, Len(line))

\* SUB_PAT = (?m)^# submodules/(?P<name>[^\s]+)\s(?P<rev>[^\s]+)$ on one line
SubMatches(line) ==
    /\ Len(line) >= 6
    /\ SubSeq(line, 1, 3) = <<"#", WS, "submodules/">>
    /\ LET rest == SubSeq(line, 4, Len(line))
           k == FirstIndex(rest, WS)
       IN  /\ k > 1
           /\ k < Len(rest)
           /\ \A j \in 1..Len(rest) : j # k => ~IsSpace(rest[j])
\* match.groups(): (name, rev)
SubGroups(line) ==
    LET rest == SubSeq(line, 4, Len(line))
        k == FirstIndex(rest, WS)
    IN  <<SubSeq(rest, 1, k - 1), SubSeq(rest, k + 1, Len(rest))>>

\* the name of DEP_PAT: [A-Z0-9]|[A-Z0-9][A-Z0-9._-]*[A-Z0-9], case ignored
IsName(t) ==
    /\ t # <<>>
    /\ \A k \in 1..Len(t) : t[k] \in Alnum \cup NamePunct
    /\ t[1] \in Alnum
    /\ t[Len(t)] \in Alnum

\* DEP_PAT = (?mi)^(?P<name>...)==.+$ on one line
DepMatches(line) ==
    LET k == FirstIndex(line, "==")
    IN  /\ k > 1
        /\ k < Len(line)
        /\ IsName(SubSeq(line, 1, k - 1))
DepNameGroup(line) == SubSeq(line, 1, FirstIndex(line, "==") - 1)

\* one lexeme of a name used as a regular expression, against one lexeme of
\* text: "." stands for any one character, everything else for itself,
\* case ignored
LexMatches(p, c) ==
    IF p = "." THEN c \in OneChar ELSE Fold(p) = Fold(c)

\* rf"(?mi)^(?P<name>{name})==(?P<ver>.+$)" on one line: the name is put into
\* the pattern as it is, not escaped
NamePatMatches(name, line) ==
    /\ Len(line) >= Len(name) + 2
    /\ line[Len(name) + 1] = "=="
    /\ \A k \in 1..Len(name) : LexMatches(name[k], line[k])

\* finditer of a line pattern: the lines that match, in order
finditer_UV(text) == SelectSeq(splitlines(text), UvMatches)
finditer_SUB(text) == SelectSeq(splitlines(text), SubMatches)
finditer_DEP(text) == SelectSeq(splitlines(text), DepMatches)

\* ------------------------------------------------------------ environment
(***************************************************************************)
(* The collaborators of the program, as far as it reads them.  An          *)
(* environment e is a record:                                              *)
(*   e.uv      the version `bin/uv --version` reports                      *)
(*   e.subs    the submodules requirements/dev.in names, in the order of   *)
(*             the file, each with the commit git resolves it to           *)
(*   e.foo     the version the resolver gives the direct dependency foo    *)
(*   e.bar     whether dev.in declares a second direct dependency, bar     *)
(*   e.nodeps  the content of requirements/nodeps.in                       *)
(***************************************************************************)
V10 == <<"1", ".", "0">>
V101 == <<"1", ".", "0", ".", "1">>
V20 == <<"2", ".", "0">>

\* stdout of `bin/uv --version`
UvVersionStdout(e) == <<"uv", WS, e.uv, NL>>

\* requirements/dev.in
DevFile(e) ==
    Join(<<>>, [k \in 1..Len(e.subs) |->
                    <<"-e", WS, "submodules/", e.subs[k][1], NL>>])
    \o <<"foo", NL>> \o (IF e.bar THEN <<"bar", NL>> ELSE <<>>)

\* stdout of `git rev-parse HEAD:<sub>`
GitStdout(e, sub) ==
    LET k == CHOOSE k \in 1..Len(e.subs) : <<"submodules/", e.subs[k][1]>> = sub
    IN  <<e.subs[k][2], NL>>

\* stdout of `bin/uv pip compile ...`: the command echoed in a comment, one
\* name==version line for each resolved package, each followed by an
\* indented comment; without --no-deps the transitive dependency baz too
ResolverStdout(e, platform, python_version, high, no_deps) ==
    <<"#", IND, "uv pip compile", WS, platform, WS, python_version, WS,
      IF high THEN "highest" ELSE "lowest-direct">>
    \o (IF no_deps THEN <<WS, "--no-deps">> ELSE <<>>) \o <<NL>>
    \o <<"foo", "==">> \o e.foo \o <<NL, IND, "# via -r requirements/dev.in", NL>>
    \o (IF e.bar
        THEN <<"bar", "==">> \o V10 \o <<NL, IND, "# via -r requirements/dev.in", NL>>
        ELSE <<>>)
    \o (IF no_deps THEN <<>>
        ELSE <<"baz", "==">> \o V10 \o <<NL, IND, "# via foo", NL>>)

\* ----------------------------------------------------------------- compile

\* get_uv_version(): the second blank-separated word of the probe's output
get_uv_version(e) == Split(strip(UvVersionStdout(e)), WS)[2]

\* finditer(r"submodules/.+\b", text): on each line that names a submodule,
\* from the word submodules/ to the last word character of the line
SubmoduleMatches(text) ==
    LET lines == SelectSeq(splitlines(text),
                           LAMBDA l : /\ FirstIndex(l, "submodules/") > 0
                                      /\ FirstIndex(l, "submodules/") < Len(rstrip(l)))
    IN  [k \in 1..Len(lines) |->
            SubSeq(rstrip(lines[k]), FirstIndex(lines[k], "submodules/"),
                   Len(rstrip(lines[k])))]

RECURSIVE DictItems(_, _)
\* the items of {key: value(key) for key in keys}: a key that comes again
\* keeps its first place
DictItems(keys, seen) ==
    IF keys = <<>> THEN <<>>
    ELSE IF keys[1] \in seen THEN DictItems(Tail(keys), seen)
    ELSE <<keys[1]>> \o DictItems(Tail(keys), seen \cup {keys[1]})

\* the submodules dict of compile: (sub, rev) in the order of dev.in
Submodules(e) ==
    LET subs == DictItems(SubmoduleMatches(DevFile(e)), {})
    IN  [k \in 1..Len(subs) |-> <<subs[k], strip(GitStdout(e, subs[k]))>>]

\* the return expression of compile: the fragment made of the version
\* get_uv_version returned, the submodules dict, the stdout of the resolver
\* and the content of requirements/nodeps.in
Fragment(version, submodules, deps, nodeps) ==
    Join(<<NL>>,
         <<<<"#", WS, "uv", WS>> \o version>>
         \o [k \in 1..Len(submodules) |->
                <<"#", WS>> \o submodules[k][1] \o <<WS>> \o submodules[k][2]]
         \o StripAll(splitlines(deps))
         \o StripAll(splitlines(nodeps)))
    \o <<NL>>

\* the value compile returns when no subprocess fails
compile(e, platform, python_version, high, no_deps) ==
    Fragment(get_uv_version(e), Submodules(e),
             ResolverStdout(e, platform, python_version, high, no_deps), e.nodeps)

\* ------------------------------------------------------------------- store

\* PLATFORMS
PLATFORMS == <<"linux", "macos", "windows">>
\* PYTHON_VERSIONS, when there is no .python-versions file
PYTHON_VERSIONS == <<"3.9", "3.10", "3.11", "3.12">>

\* the key made without the Python version
get_compilation_key_NoVersion(platform, python_version, high) ==
    Join(<<"_">>, <<<<platform>>>> \o (IF high THEN <<<<"high">>>> ELSE <<>>))

\* get_compilation_key
get_compilation_key(platform, python_version, high) ==
    Join(<<"_">>, <<<<platform>>, <<python_version>>>>
                  \o (IF high THEN <<<<"high">>>> ELSE <<>>))

\* get_lockfile: the path of the store of a mode
get_lockfile(high) == IF high THEN "lock-high.json" ELSE "lock.json"

\* the place of a lexeme of a key in the order of Python's str
KeyLexOrd(c) ==
    CASE c = "3.10" -> 1 [] c = "3.11" -> 2 [] c = "3.12" -> 3 [] c = "3.13" -> 4
      [] c = "3.9" -> 5 [] c = "_" -> 6 [] c = "high" -> 7 [] c = "linux" -> 8
      [] c = "macos" -> 9 [] c = "windows" -> 10

\* a < b for two keys, as sort_keys=True compares them
KeyLess(a, b) ==
    \E k \in 1..(Len(a) + 1) :
        /\ k <= Len(b)
        /\ \A j \in 1..(k - 1) : a[j] = b[j]
        /\ (k = Len(a) + 1 \/ KeyLexOrd(a[k]) < KeyLexOrd(b[k]))

RECURSIVE SortedKeys(_)
SortedKeys(keys) ==
    IF keys = {} THEN <<>>
    ELSE LET least == CHOOSE a \in keys : \A b \in keys \ {a} : KeyLess(a, b)
         IN  <<least>> \o SortedKeys(keys \ {least})

\* dumps(indent=2, sort_keys=True, obj=...) + "\n": the JSON document, one
\* member (key, value) after the other in the order of the keys.  obj is a
\* dict, here a function from keys to texts.
dumps(obj) ==
    LET keys == SortedKeys(DOMAIN obj)
    IN  [k \in 1..Len(keys) |-> <<keys[k], obj[keys[k]]>>]

\* loads(...): the dict of a JSON document; of two members with one key the
\* later one counts
loads(doc) ==
    [key \in {doc[k][1] : k \in 1..Len(doc)} |->
        LET last == CHOOSE k \in 1..Len(doc) :
                        /\ doc[k][1] = key
                        /\ \A j \in (k + 1)..Len(doc) : doc[j][1] # key
        IN  doc[last][2]]

\* a path that names no file, and a file with a JSON document in it
NoFile == [exists |-> FALSE, doc |-> <<>>]
JsonFile(doc) == [exists |-> TRUE, doc |-> doc]

\* get_compilation with the key of the other mode: high not passed on
get_compilation_LowKey(fs, platform, python_version, high) ==
    LET lockfile == fs[get_lockfile(high)]
    IN  IF ~lockfile.exists THEN <<>>
        ELSE LET contents == loads(lockfile.doc)
                 key == get_compilation_key(platform, python_version, FALSE)
             IN  IF key \in DOMAIN contents THEN contents[key] ELSE <<>>

\* get_compilation, reading the files fs
get_compilation(fs, platform, python_version, high) ==
    LET lockfile == fs[get_lockfile(high)]
    IN  IF ~lockfile.exists THEN <<>>
        ELSE LET contents == loads(lockfile.doc)
                 key == get_compilation_key(platform, python_version, high)
             IN  IF key \in DOMAIN contents THEN contents[key] ELSE <<>>

\* the (platform, python_version) pairs in the order the loops of lock go
\* through them
LockPairs ==
    [k \in 1..(Len(PLATFORMS) * Len(PYTHON_VERSIONS)) |->
        <<PLATFORMS[((k - 1) \div Len(PYTHON_VERSIONS)) + 1],
          PYTHON_VERSIONS[((k - 1) % Len(PYTHON_VERSIONS)) + 1]>>]

\* lock_contents[key] = compilation
DictSet(d, key, value) == [k \in DOMAIN d \cup {key} |-> IF k = key THEN value ELSE d[k]]

\* ------------------------------------------------------- check_compilation

Min(a, b) == IF a < b THEN a ELSE b

\* search(UV_PAT, old): the matches, the first of which search returns
StoredUv(old) == finditer_UV(old)

\* the pins compared by name: a stored pin and a new pin of one submodule
\* with two commits
SubmoduleMismatch_ByName(old, directs) ==
    LET old_subs == finditer_SUB(old)
        new_subs == finditer_SUB(directs)
    IN  \E k \in 1..Len(old_subs), j \in 1..Len(new_subs) :
            /\ SubGroups(old_subs[k])[1] = SubGroups(new_subs[j])[1]
            /\ SubGroups(old_subs[k])[2] # SubGroups(new_subs[j])[2]

\* the pairs compared by name alone
SubmoduleMismatch_NamesOnly(old, directs) ==
    LET old_subs == finditer_SUB(old)
        new_subs == finditer_SUB(directs)
    IN  \E k \in 1..Min(Len(old_subs), Len(new_subs)) :
            SubGroups(old_subs[k])[1] # SubGroups(new_subs[k])[1]

\* any(old_sub.groups() != new_sub.groups() ...) over
\* zip(finditer(SUB_PAT, old), finditer(SUB_PAT, directs), strict=False)
SubmoduleMismatch(old, directs) ==
    LET old_subs == finditer_SUB(old)
        new_subs == finditer_SUB(directs)
    IN  \E k \in 1..Min(Len(old_subs), Len(new_subs)) :
            SubGroups(old_subs[k]) # SubGroups(new_subs[k])

\* search(pat, old) for the pattern made of one direct dependency's name:
\* the lines of old that match, the first of which search returns
SearchDirect(name, old) ==
    SelectSeq(splitlines(old), LAMBDA line : NamePatMatches(name, line))

\* the loop over finditer(DEP_PAT, directs) ends in `return lock(high)`
DirectMissing(old, directs) ==
    LET deps == finditer_DEP(directs)
    IN  \E k \in 1..Len(deps) : SearchDirect(DepNameGroup(deps[k]), old) = <<>>

\* old_directs after the loop, when no direct dependency is missing
OldDirects(old, directs) ==
    LET deps == finditer_DEP(directs)
    IN  [k \in 1..Len(deps) |-> SearchDirect(DepNameGroup(deps[k]), old)[1]]

\* any(d not in sys_compilation for d in old_directs)
DirectVersionMismatch(old_directs, sys_compilation) ==
    \E k \in 1..Len(old_directs) : ~Contains(sys_compilation, old_directs[k])

\* ------------------------------------------------------------------- state

VARIABLES
    fs,              \* the files lock.json and lock-high.json
    env,             \* the environment
    sys,             \* <<SYS_PLATFORM, SYS_PYTHON_VERSION>>
    pc,              \* where the run is: start, probe, nodeps, full, lock, done
    high,            \* the argument of check_compilation and lock
    old,             \* check_compilation: old
    directs,         \* check_compilation: directs
    old_directs,     \* check_compilation: old_directs
    sys_compilation, \* check_compilation and lock: sys_compilation
    lock_contents,   \* lock: lock_contents
    n,               \* lock: the place in LockPairs of the next pair
    ret,             \* the value returned
    raised,          \* the exception that ended the run, "" when none
    fs0,             \* the files as they were when the run began
    events,          \* what the run has done so far
    call,            \* one call of compile alone: its inputs and its result
    calls            \* the calls that ended before the present one, in order

vars == <<fs, env, sys, pc, high, old, directs, old_directs, sys_compilation,
          lock_contents, n, ret, raised, fs0, events, call, calls>>

\* ------------------------------------------------------------ initial state

\* the longest list of submodules of an environment
MaxSubs == 2

UvVersions == {"0.1.0", "0.2.0"}
SubNames == {"X", "Y"}
Revs == {"A", "B"}
FooVersions == {V10, V101, V20}
NodepsFiles ==
    { <<>>,
      <<"a", ".", "b", "==">> \o V10 \o <<NL>>,
      <<"a", "x", "b", "==">> \o V10 \o <<NL>>,
      <<"A", ".", "B", "==">> \o V10 \o <<NL>>,
      <<"a", "x", "b", "==">> \o V10 \o <<NL, "a", ".", "b", "==">> \o V10 \o <<NL>> }

\* lists of submodules, no name twice
PinLists ==
    UNION { { s \in [1..k -> SubNames \X Revs] :
                \A i, j \in 1..k : i # j => s[i][1] # s[j][1] } : k \in 0..MaxSubs }

Base == [uv |-> "0.1.0", subs |-> << <<"X", "A">> >>, foo |-> V10, bar |-> FALSE,
         nodeps |-> <<>>]

\* the environments: Base, and Base with one of its parts changed
Envs ==
    { [Base EXCEPT !.uv = u] : u \in UvVersions }
    \cup { [Base EXCEPT !.subs = s] : s \in PinLists }
    \cup { [Base EXCEPT !.foo = v] : v \in FooVersions }
    \cup { [Base EXCEPT !.bar = b] : b \in BOOLEAN }
    \cup { [Base EXCEPT !.nodeps = t] : t \in NodepsFiles }

\* the current platform and Python version: one pair lock goes through, and
\* one it does not (a Python newer than PYTHON_VERSIONS)
SysEnvs == { <<"macos", "3.11">>, <<"macos", "3.13">> }

RECURSIVE LockContents(_, _, _, _)
\* lock_contents after the first k of the pairs, compiled in environment e
LockContents(e, h, pairs, k) ==
    IF k = 0 THEN <<>>
    ELSE DictSet(LockContents(e, h, pairs, k - 1),
                 get_compilation_key(pairs[k][1], pairs[k][2], h),
                 compile(e, pairs[k][1], pairs[k][2], h, FALSE))

\* a fragment as it was before fragments carried the "# uv" line
WithoutUvLine(text) == Join(<<NL>>, Tail(splitlines(text))) \o <<NL>>

Paths == { get_lockfile(h) : h \in BOOLEAN }
ModeOf(path) == CHOOSE h \in BOOLEAN : get_lockfile(h) = path

\* the pairs of a run whose .python-versions file also named Python 3.13
WiderPairs == LockPairs \o [k \in 1..Len(PLATFORMS) |-> <<PLATFORMS[k], "3.13">>]

\* the stores a run may find: none; the one lock wrote in an environment e;
\* the one it wrote when .python-versions also named Python 3.13; and one
\* written before fragments carried the "# uv" line
NoStore == [path \in Paths |-> NoFile]
LockedStore(e, pairs) ==
    [path \in Paths |-> JsonFile(dumps(LockContents(e, ModeOf(path), pairs, Len(pairs))))]
LegacyStore(e) ==
    [path \in Paths |->
        LET c == LockContents(e, ModeOf(path), LockPairs, Len(LockPairs))
        IN  JsonFile(dumps([key \in DOMAIN c |-> WithoutUvLine(c[key])]))]
Stores ==
    {NoStore}
    \cup { LockedStore(e, LockPairs) : e \in Envs }
    \cup { LockedStore(e, WiderPairs) : e \in Envs }
    \cup { LegacyStore(e) : e \in Envs }

Init ==
    /\ fs \in Stores
    /\ env \in Envs
    /\ sys \in SysEnvs
    /\ pc = "start"
    /\ high = FALSE
    /\ old = <<>>
    /\ directs = <<>>
    /\ old_directs = <<>>
    /\ sys_compilation = <<>>
    /\ lock_contents = <<>>
    /\ n = 0
    /\ ret = <<>>
    /\ raised = ""
    /\ fs0 = fs
    /\ events = <<>>
    /\ call = <<>>
    /\ calls = <<>>

\* ----------------------------------------------------------------- actions
(***************************************************************************)
(* One action is one subprocess-running call of the run (get_uv_version or *)
(* compile) together with the code that follows it up to the next such     *)
(* call or to the return; the first action is the code from the entry to   *)
(* the first such call.  A call that runs subprocesses either returns or   *)
(* raises: RuntimeError when bin/uv exits non-zero, CalledProcessError     *)
(* when git does.                                                          *)
(***************************************************************************)

\* `return lock(high, sc)`: the call of lock, up to its first compile
EnterLock(sc, done) ==
    /\ pc' = "lock"
    /\ sys_compilation' = sc
    /\ lock_contents' = <<>>
    /\ n' = 1
    /\ events' = events \o done \o <<"lock">>

\* an exception leaves the run
Raise(exception, done) ==
    /\ pc' = "done"
    /\ raised' = exception
    /\ events' = events \o done
    /\ UNCHANGED <<fs, env, sys, high, old, directs, old_directs, sys_compilation,
                   lock_contents, n, ret, fs0, call, calls>>

\* the exceptions a call of compile may raise in environment e
CompileErrors(e) ==
    {"RuntimeError"} \cup (IF e.subs = <<>> THEN {} ELSE {"CalledProcessError"})

\* check_compilation with old_uv["version"] read before old_uv is tested
CheckCompilation_NoneVersion(h) ==
    /\ pc = "start"
    /\ high' = h
    /\ LET stored == get_compilation(fs, sys[1], sys[2], h)
       IN  /\ old' = stored
           /\ IF stored = <<>>
              THEN /\ EnterLock(<<>>, <<"get_compilation">>)
                   /\ UNCHANGED raised
              ELSE IF StoredUv(stored) = <<>>
              THEN /\ pc' = "done"
                   /\ raised' = "TypeError"
                   /\ events' = events \o <<"get_compilation", "search_uv">>
                   /\ UNCHANGED <<sys_compilation, lock_contents, n>>
              ELSE /\ pc' = "probe"
                   /\ events' = events \o <<"get_compilation", "search_uv">>
                   /\ UNCHANGED <<sys_compilation, lock_contents, n, raised>>
    /\ UNCHANGED <<fs, env, sys, directs, old_directs, ret, fs0, call, calls>>

\* check_compilation(h), lines 68-73
CheckCompilation(h) ==
    /\ pc = "start"
    /\ high' = h
    /\ LET stored == get_compilation(fs, sys[1], sys[2], h)
       IN  /\ old' = stored
           /\ IF stored = <<>>
              THEN EnterLock(<<>>, <<"get_compilation">>)
              ELSE IF StoredUv(stored) = <<>>
              THEN EnterLock(<<>>, <<"get_compilation", "search_uv">>)
              ELSE /\ pc' = "probe"
                   /\ events' = events \o <<"get_compilation", "search_uv">>
                   /\ UNCHANGED <<sys_compilation, lock_contents, n>>
    /\ UNCHANGED <<fs, env, sys, directs, old_directs, ret, raised, fs0, call, calls>>

\* lines 74-75, get_uv_version returns
ProbeReturns ==
    /\ pc = "probe"
    /\ IF UvVersionGroup(StoredUv(old)[1]) # get_uv_version(env)
       THEN EnterLock(<<>>, <<"get_uv_version">>)
       ELSE /\ pc' = "nodeps"
            /\ events' = events \o <<"get_uv_version">>
            /\ UNCHANGED <<sys_compilation, lock_contents, n>>
    /\ UNCHANGED <<fs, env, sys, high, old, directs, old_directs, ret, raised, fs0, call, calls>>

\* line 74, get_uv_version raises
ProbeRaises ==
    /\ pc = "probe"
    /\ Raise("RuntimeError", <<"get_uv_version">>)

\* lines 76-91 without the comparison of the pins
NoDepsReturns_NoPinGuard ==
    /\ pc = "nodeps"
    /\ LET fresh == compile(env, sys[1], sys[2], high, TRUE)
       IN  /\ directs' = fresh
           /\ IF DirectMissing(old, fresh)
              THEN /\ EnterLock(<<>>, <<"compile_nodeps", "zip_subs", "search_directs">>)
                   /\ UNCHANGED old_directs
              ELSE /\ old_directs' = OldDirects(old, fresh)
                   /\ pc' = "full"
                   /\ events' = events \o <<"compile_nodeps", "zip_subs", "search_directs">>
                   /\ UNCHANGED <<sys_compilation, lock_contents, n>>
    /\ UNCHANGED <<fs, env, sys, high, old, ret, raised, fs0, call, calls>>

\* lines 76-91, compile(..., no_deps=True) returns
NoDepsReturns ==
    /\ pc = "nodeps"
    /\ LET fresh == compile(env, sys[1], sys[2], high, TRUE)
       IN  /\ directs' = fresh
           /\ IF SubmoduleMismatch(old, fresh)
              THEN /\ EnterLock(<<>>, <<"compile_nodeps", "zip_subs">>)
                   /\ UNCHANGED old_directs
              ELSE IF DirectMissing(old, fresh)
              THEN /\ EnterLock(<<>>, <<"compile_nodeps", "zip_subs", "search_directs">>)
                   /\ UNCHANGED old_directs
              ELSE /\ old_directs' = OldDirects(old, fresh)
                   /\ pc' = "full"
                   /\ events' = events \o <<"compile_nodeps", "zip_subs", "search_directs">>
                   /\ UNCHANGED <<sys_compilation, lock_contents, n>>
    /\ UNCHANGED <<fs, env, sys, high, old, ret, raised, fs0, call, calls>>

\* line 76, compile raises
NoDepsRaises ==
    /\ pc = "nodeps"
    /\ \E x \in CompileErrors(env) : Raise(x, <<"compile_nodeps">>)

\* lines 92-95, compile(...) returns
FullReturns ==
    /\ pc = "full"
    /\ LET fresh == compile(env, sys[1], sys[2], high, FALSE)
       IN  IF DirectVersionMismatch(old_directs, fresh)
           THEN /\ EnterLock(fresh, <<"compile_full">>)
                /\ UNCHANGED ret
           ELSE /\ pc' = "done"
                /\ ret' = old
                /\ sys_compilation' = fresh
                /\ events' = events \o <<"compile_full", "return_old">>
                /\ UNCHANGED <<lock_contents, n>>
    /\ UNCHANGED <<fs, env, sys, high, old, directs, old_directs, raised, fs0, call, calls>>

\* line 92, compile raises
FullRaises ==
    /\ pc = "full"
    /\ \E x \in CompileErrors(env) : Raise(x, <<"compile_full">>)

\* lock with the store written inside the loop, after every pair
LockCompileReturns_WriteEach ==
    /\ pc = "lock"
    /\ LET platform == LockPairs[n][1]
           python_version == LockPairs[n][2]
           key == get_compilation_key(platform, python_version, high)
           compilation == compile(env, platform, python_version, high, FALSE)
           sc == IF sys_compilation = <<>> /\ platform = sys[1] /\ python_version = sys[2]
                 THEN compilation ELSE sys_compilation
           contents == DictSet(lock_contents, key, compilation)
       IN  /\ sys_compilation' = sc
           /\ lock_contents' = contents
           /\ fs' = [fs EXCEPT ![get_lockfile(high)] = JsonFile(dumps(contents))]
           /\ events' = events \o <<"compile", "write_text">>
           /\ IF n < Len(LockPairs)
              THEN /\ n' = n + 1
                   /\ UNCHANGED <<pc, ret>>
              ELSE /\ ret' = sc
                   /\ pc' = "done"
                   /\ UNCHANGED n
    /\ UNCHANGED <<env, sys, high, old, directs, old_directs, raised, fs0, call, calls>>

\* lock writing lock_contents over the members the file holds, the members
\* under other keys kept
LockCompileReturns_KeepKeys ==
    /\ pc = "lock"
    /\ LET platform == LockPairs[n][1]
           python_version == LockPairs[n][2]
           key == get_compilation_key(platform, python_version, high)
           compilation == compile(env, platform, python_version, high, FALSE)
           sc == IF sys_compilation = <<>> /\ platform = sys[1] /\ python_version = sys[2]
                 THEN compilation ELSE sys_compilation
           contents == DictSet(lock_contents, key, compilation)
           kept == loads(fs[get_lockfile(high)].doc)
           merged == [k \in DOMAIN kept \cup DOMAIN contents |->
                         IF k \in DOMAIN contents THEN contents[k] ELSE kept[k]]
       IN  /\ sys_compilation' = sc
           /\ lock_contents' = contents
           /\ IF n < Len(LockPairs)
              THEN /\ n' = n + 1
                   /\ events' = events \o <<"compile">>
                   /\ UNCHANGED <<fs, pc, ret>>
              ELSE /\ fs' = [fs EXCEPT ![get_lockfile(high)] = JsonFile(dumps(merged))]
                   /\ ret' = sc
                   /\ pc' = "done"
                   /\ events' = events \o <<"compile", "write_text">>
                   /\ UNCHANGED n
    /\ UNCHANGED <<env, sys, high, old, directs, old_directs, raised, fs0, call, calls>>

\* lock, lines 103-111 for the pair LockPairs[n], compile returns; after the
\* last pair lines 112-115 too
LockCompileReturns ==
    /\ pc = "lock"
    /\ LET platform == LockPairs[n][1]
           python_version == LockPairs[n][2]
           key == get_compilation_key(platform, python_version, high)
           compilation == compile(env, platform, python_version, high, FALSE)
           sc == IF sys_compilation = <<>> /\ platform = sys[1] /\ python_version = sys[2]
                 THEN compilation ELSE sys_compilation
           contents == DictSet(lock_contents, key, compilation)
       IN  /\ sys_compilation' = sc
           /\ lock_contents' = contents
           /\ IF n < Len(LockPairs)
              THEN /\ n' = n + 1
                   /\ events' = events \o <<"compile">>
                   /\ UNCHANGED <<fs, pc, ret>>
              ELSE /\ fs' = [fs EXCEPT ![get_lockfile(high)] = JsonFile(dumps(contents))]
                   /\ ret' = sc
                   /\ pc' = "done"
                   /\ events' = events \o <<"compile", "write_text">>
                   /\ UNCHANGED n
    /\ UNCHANGED <<env, sys, high, old, directs, old_directs, raised, fs0, call, calls>>

\* lock, line 104, compile raises
LockCompileRaises ==
    /\ pc = "lock"
    /\ \E x \in CompileErrors(env) : Raise(x, <<"compile">>)

Next ==
    \/ \E h \in BOOLEAN : CheckCompilation(h)
    \/ ProbeReturns
    \/ ProbeRaises
    \/ NoDepsReturns
    \/ NoDepsRaises
    \/ FullReturns
    \/ FullRaises
    \/ LockCompileReturns
    \/ LockCompileRaises

Spec == Init /\ [][Next]_vars

\* ------------------------------------------------------------------ claims

InEvents(x) == \E k \in 1..Len(events) : events[k] = x
Count(x) == Cardinality({k \in 1..Len(events) : events[k] = x})
\* the event that came right after the first x
After(x) ==
    LET k == FirstIndex(events, x)
    IN  IF k > 0 /\ k < Len(events) THEN events[k + 1] ELSE ""
Returned == pc = "done" /\ raised = ""
Fatal == pc = "done" /\ raised # ""
\* the fragment the store held for the current key when the run began
Stored0 == get_compilation(fs0, sys[1], sys[2], high)
\* the fragment compile gives now for the current platform and Python version
FreshFull == compile(env, sys[1], sys[2], high, FALSE)
FirstLine(text) == IF splitlines(text) = <<>> THEN <<>> ELSE splitlines(text)[1]

\* C1 (idempotence): when the fragment the store holds for the current key is
\* the one compile produces in the present environment, a run of
\* check_compilation never calls lock and never changes the store files,
\* and when it returns it returns exactly the stored fragment.
C1_Idempotence ==
    (pc # "start" /\ Stored0 = FreshFull)
        => /\ ~InEvents("lock")
           /\ fs = fs0
           /\ (Returned => ret = Stored0 /\ InEvents("return_old"))

\* a run that found the fragment of the present environment and returned it
C1_Witness ==
    /\ Returned
    /\ Stored0 = FreshFull
    /\ ret = Stored0
    /\ Stored0 # <<>>
    /\ Count("compile_nodeps") = 1
    /\ Count("compile_full") = 1

\* the store file of the mode of the run, now and when the run began
LockFile == fs[get_lockfile(high)]
LockFile0 == fs0[get_lockfile(high)]
\* the members of a document under one key
Members(doc, key) == {k \in 1..Len(doc) : doc[k][1] = key}

\* C2 (freshness on a missing store): when check_compilation is called with
\* no store file for its mode and returns, it has called lock, and the store
\* file exists and holds exactly one entry for every pair of
\* PLATFORMS x PYTHON_VERSIONS and no other entry.
C2_FreshStore ==
    (Returned /\ ~LockFile0.exists)
        => /\ InEvents("lock")
           /\ LockFile.exists
           /\ Len(LockFile.doc) = Len(PLATFORMS) * Len(PYTHON_VERSIONS)
           /\ \A i \in 1..Len(PLATFORMS), j \in 1..Len(PYTHON_VERSIONS) :
                 Cardinality(Members(LockFile.doc,
                     get_compilation_key(PLATFORMS[i], PYTHON_VERSIONS[j], high))) = 1

\* a run that began without a store file and returned
C2_Witness ==
    /\ Returned
    /\ ~LockFile0.exists
    /\ LockFile.exists
    /\ Count("compile") = Len(LockPairs)

\* the stored fragment carries a "# uv" line, with the version the probe
\* reports now or with another one
StoredVersionMatches ==
    /\ StoredUv(Stored0) # <<>>
    /\ UvVersionGroup(StoredUv(Stored0)[1]) = get_uv_version(env)
StoredVersionDiffers ==
    /\ StoredUv(Stored0) # <<>>
    /\ UvVersionGroup(StoredUv(Stored0)[1]) # get_uv_version(env)

\* C3 (resolver-version invalidation): when the stored fragment's "# uv" line
\* names another version than get_uv_version reports, a run that returns has
\* called lock without having called compile for the no-deps or the full
\* fragment of the check first, and the first line of the fragment it
\* returns is the "# uv" line with the version the probe reports.
C3_VersionInvalidation ==
    (Returned /\ StoredVersionDiffers)
        => /\ InEvents("lock")
           /\ ~InEvents("compile_nodeps")
           /\ ~InEvents("compile_full")
           /\ UvMatches(FirstLine(ret))
           /\ UvVersionGroup(FirstLine(ret)) = get_uv_version(env)

\* the stored fragment pins a submodule to one commit, and the environment
\* resolves that submodule to another
StoredPinDiffers ==
    \E k \in 1..Len(finditer_SUB(Stored0)), j \in 1..Len(env.subs) :
        LET stored == SubGroups(finditer_SUB(Stored0)[k])
        IN  /\ stored[1] = <<env.subs[j][1]>>
            /\ stored[2] # <<env.subs[j][2]>>

\* C4 (submodule-pin invalidation): when the stored fragment, with the
\* resolver version of the present environment, pins submodule X to commit A
\* and X now resolves to another commit, the comparison of the pins is
\* followed at once by the call of lock, and the run never returns the
\* stored fragment.
C4_PinInvalidation ==
    (pc # "start" /\ StoredVersionMatches /\ StoredPinDiffers)
        => /\ (InEvents("zip_subs") => After("zip_subs") = "lock")
           /\ ~InEvents("return_old")
           /\ (Returned => InEvents("lock") /\ ret # Stored0)

\* a run that found a pin of another commit, relocked and returned
C4_Witness ==
    /\ Returned
    /\ StoredVersionMatches
    /\ StoredPinDiffers
    /\ After("zip_subs") = "lock"
    /\ InEvents("write_text")

\* two names are one name, case ignored
SameName(a, b) ==
    /\ Len(a) = Len(b)
    /\ \A k \in 1..Len(a) : Fold(a[k]) = Fold(b[k])

\* the fresh no-deps fragment has a dependency line for a name for which the
\* stored fragment has no name==version line
DirectNameAbsent ==
    \E k \in 1..Len(finditer_DEP(directs)) :
        \A j \in 1..Len(finditer_DEP(Stored0)) :
            ~SameName(DepNameGroup(finditer_DEP(directs)[k]),
                      DepNameGroup(finditer_DEP(Stored0)[j]))

\* C5 (direct dependency missing): when the fresh no-deps fragment has a
\* dependency line for a package name that has no name==version line (case
\* ignored) in the stored fragment, the search for the direct names is
\* followed at once by the call of lock, before the full fragment of the
\* check is compiled, and the stored fragment is not returned.
C5_DirectMissing ==
    (InEvents("search_directs") /\ DirectNameAbsent)
        => /\ After("search_directs") = "lock"
           /\ ~InEvents("compile_full")
           /\ ~InEvents("return_old")

\* the keys lock makes for the mode of the run
AllKeys ==
    { get_compilation_key(LockPairs[k][1], LockPairs[k][2], high) : k \in 1..Len(LockPairs) }

\* C6 (all-or-nothing store write): the store file is written at most once,
\* and only as the last step of a lock whose compile returned for every pair
\* of PLATFORMS x PYTHON_VERSIONS; the store files differ from what they were
\* when the run began only after that write; and a run that a failing
\* subprocess ended has left the store files exactly as they were.
C6_AllOrNothing ==
    /\ Count("write_text") <= 1
    /\ InEvents("write_text")
          => /\ events[Len(events)] = "write_text"
             /\ Count("compile") = Len(PLATFORMS) * Len(PYTHON_VERSIONS)
             /\ DOMAIN lock_contents = AllKeys
             /\ Returned
    /\ fs # fs0 => InEvents("write_text")
    /\ raised # "" => pc = "done" /\ fs = fs0

\* a lock that a failing subprocess ended after compile had returned for
\* some of the pairs
C6_Witness ==
    /\ Fatal
    /\ events[Len(events)] = "compile"
    /\ Count("compile") > 2
    /\ DOMAIN lock_contents # {}
    /\ LockFile.exists
    /\ fs = fs0

\* every platform and Python version a key may be asked for
AnyPlatform == { PLATFORMS[k] : k \in 1..Len(PLATFORMS) } \cup { sys[1] }
AnyVersion == { PYTHON_VERSIONS[k] : k \in 1..Len(PYTHON_VERSIONS) } \cup { sys[2] }

\* C7 (store round trip): once lock has written the store of its mode from
\* lock_contents, get_compilation(platform, python_version, high) returns,
\* for every platform and Python version whose key is in lock_contents,
\* exactly the fragment lock_contents holds for that key.
C7_RoundTrip ==
    InEvents("write_text")
        => \A platform \in AnyPlatform, python_version \in AnyVersion :
              LET key == get_compilation_key(platform, python_version, high)
              IN  key \in DOMAIN lock_contents
                     => get_compilation(fs, platform, python_version, high)
                            = lock_contents[key]

\* a store of the high mode written by lock, read back for the current pair
C7_Witness ==
    /\ InEvents("write_text")
    /\ high
    /\ get_compilation_key(sys[1], sys[2], high) \in DOMAIN lock_contents
    /\ get_compilation(fs, sys[1], sys[2], high) = FreshFull
    /\ fs # fs0

\* C8 (the value returned is a lock fragment): whenever a run returns, for
\* any current platform and Python version and any store, the value returned
\* is not empty and begins with the "# uv" line.
C8_ReturnsFragment ==
    Returned => ret # <<>> /\ UvMatches(FirstLine(ret))

\* the subprocess-running calls
SubprocessCalls == {"get_uv_version", "compile_nodeps", "compile_full", "compile"}

\* C9 (stale or missing stored data is no error): get_compilation returns
\* the empty string when the store file does not exist or has no entry for
\* the key; a run that finds no store file, no entry, or a stored fragment
\* without a "# uv" line calls lock at once, without probing the resolver;
\* a run whose probe returns another version than the stored one calls lock
\* right after the probe; and a run ends with an exception only out of a
\* subprocess-running call.
C9_StaleNotFatal ==
    pc # "start"
        => /\ (\/ ~LockFile0.exists
               \/ Members(LockFile0.doc, get_compilation_key(sys[1], sys[2], high)) = {})
                  => Stored0 = <<>>
           /\ Stored0 = <<>> => After("get_compilation") = "lock"
           /\ (Stored0 # <<>> /\ StoredUv(Stored0) = <<>>) => After("search_uv") = "lock"
           /\ (Stored0 = <<>> \/ StoredUv(Stored0) = <<>>) => ~InEvents("get_uv_version")
           /\ (StoredVersionDiffers /\ Len(events) > 3) => After("get_uv_version") = "lock"
           /\ raised # "" => events[Len(events)] \in SubprocessCalls

\* a run that found a fragment without a "# uv" line, relocked and returned
C9_Witness ==
    /\ Returned
    /\ Stored0 # <<>>
    /\ StoredUv(Stored0) = <<>>
    /\ After("search_uv") = "lock"
    /\ InEvents("write_text")

\* ------------------------------------------------------------ compile alone
(***************************************************************************)
(* A call of compile for any output of the resolver and any content of     *)
(* requirements/nodeps.in: texts of up to MaxLines lines.                  *)
(***************************************************************************)

\* the most lines of a text given to compile
MaxLines == 2

\* the lines of the texts: a dependency, an indented comment, an empty line
\* and a line of blanks
InputLines ==
    { <<"foo", "==">> \o V10 \o <<NL>>,
      <<IND, "# via foo", NL>>,
      <<NL>>,
      <<WS, NL>> }

InputTexts ==
    UNION { { Join(<<>>, lines) : lines \in [1..k -> InputLines] } : k \in 0..MaxLines }

InitCompile ==
    /\ fs = NoStore
    /\ env \in { [Base EXCEPT !.subs = s] : s \in PinLists }
    /\ sys \in SysEnvs
    /\ pc = "compile"
    /\ high = FALSE
    /\ old = <<>>
    /\ directs = <<>>
    /\ old_directs = <<>>
    /\ sys_compilation = <<>>
    /\ lock_contents = <<>>
    /\ n = 0
    /\ ret = <<>>
    /\ raised = ""
    /\ fs0 = fs
    /\ events = <<>>
    /\ call \in [deps : InputTexts, nodeps : InputTexts, fragment : {<<>>}]
    /\ calls = <<>>

\* compile, lines 214-232, with deps the stdout of the resolver
CompileReturns ==
    /\ pc = "compile"
    /\ call' = [call EXCEPT !.fragment =
                   Fragment(get_uv_version(env), Submodules(env), call.deps, call.nodeps)]
    /\ pc' = "done"
    /\ UNCHANGED <<fs, env, sys, high, old, directs, old_directs, sys_compilation,
                   lock_contents, n, ret, raised, fs0, events, calls>>

NextCompile == CompileReturns

SpecCompile == InitCompile /\ [][NextCompile]_vars

\* the lines of the fragment compile returned
FragmentLines == splitlines(call.fragment)

\* C10 (fragment format): for every fragment compile produces, whatever the
\* resolver printed and whatever requirements/nodeps.in holds, the first line
\* is the "# uv" line, the submodule lines follow it with no other line
\* before or between them, and the fragment ends with exactly one newline.
C10_FragmentFormat ==
    (pc = "done" /\ call # <<>>)
        => /\ UvMatches(FragmentLines[1])
           /\ \A k \in 2..Len(FragmentLines) :
                  SubMatches(FragmentLines[k])
                      => \A j \in 2..k : SubMatches(FragmentLines[j])
           /\ Len(finditer_SUB(call.fragment)) = Len(env.subs)
           /\ call.fragment[Len(call.fragment)] = NL
           /\ call.fragment[Len(call.fragment) - 1] # NL

\* ------------------------------------------------- claims on lock's argument

\* the calls of compile the lock of the run has made so far for the current
\* platform and Python version: the k-th call is for LockPairs[k]
LockCompilesOfCurrent ==
    Cardinality({ k \in 1..Min(Count("compile"), Len(LockPairs)) : LockPairs[k] = sys })

\* lock was called with the full fragment the check had compiled
LockGivenFragment == After("compile_full") = "lock"

\* C11 (lock reuses a fragment it is given): when lock was called with the
\* full fragment the check had compiled for the current platform and Python
\* version and returns, it returns that fragment and has not called compile
\* for the current pair; when it was called without one and returns, it has
\* called compile exactly once for the current pair.
C11_PrecomputedReuse ==
    (Returned /\ InEvents("lock"))
        => IF LockGivenFragment
           THEN ret = FreshFull /\ LockCompilesOfCurrent = 0
           ELSE LockCompilesOfCurrent = 1

\* ------------------------------------------- claims on the direct versions

\* (?P<ver>.+$) of a name==version line
DepVersionOf(line) == SubSeq(line, FirstIndex(line, "==") + 1, Len(line))

\* the stored fragment gives a direct dependency of the fresh no-deps
\* fragment one version, and the fresh full fragment gives it another
StoredDirectVersionDiffers ==
    \E d \in 1..Len(finditer_DEP(directs)),
       s \in 1..Len(finditer_DEP(Stored0)),
       f \in 1..Len(finditer_DEP(FreshFull)) :
        LET name == DepNameGroup(finditer_DEP(directs)[d])
            stored == finditer_DEP(Stored0)[s]
            fresh == finditer_DEP(FreshFull)[f]
        IN  /\ SameName(name, DepNameGroup(stored))
            /\ SameName(name, DepNameGroup(fresh))
            /\ DepVersionOf(stored) # DepVersionOf(fresh)

\* C12 (direct-dependency version invalidation): a run returns the stored
\* fragment only when every line collected in old_directs is found in the
\* fresh full fragment; and when the stored fragment gives a direct
\* dependency another version than the fresh full fragment does, the
\* compilation of the full fragment is followed at once by the call of lock
\* and the stored fragment is not returned.
C12_DirectVersionInvalidation ==
    /\ InEvents("return_old")
          => \A k \in 1..Len(old_directs) : Contains(FreshFull, old_directs[k])
    /\ (After("compile_full") # "" /\ StoredDirectVersionDiffers)
          => /\ After("compile_full") = "lock"
             /\ ~InEvents("return_old")

\* -------------------------------------------- claims on the submodule pins

\* the groups of the submodule-pin lines of a fragment, in their order
PinsOf(text) == [k \in 1..Len(finditer_SUB(text)) |-> SubGroups(finditer_SUB(text)[k])]

\* the elements of a sequence
Range(s) == { s[k] : k \in 1..Len(s) }

\* C13 (missing submodule pin): when the stored fragment, with the resolver
\* version of the present environment, has fewer submodule-pin lines than the
\* fresh no-deps fragment, the comparison of the pins is followed at once by
\* the call of lock and the stored fragment is not returned.
C13_MissingPin ==
    (InEvents("zip_subs") /\ StoredVersionMatches
        /\ Len(PinsOf(Stored0)) < Len(PinsOf(directs)))
        => /\ After("zip_subs") = "lock"
           /\ ~InEvents("return_old")

\* C14 (pins are compared by position): when the stored fragment and the
\* fresh no-deps fragment hold the same set of pins in another order, the
\* comparison of the pins is followed at once by the call of lock, and the
\* stored fragment is not returned.
C14_PositionalPins ==
    (InEvents("zip_subs")
        /\ Range(PinsOf(Stored0)) = Range(PinsOf(directs))
        /\ PinsOf(Stored0) # PinsOf(directs))
        => /\ After("zip_subs") = "lock"
           /\ ~InEvents("return_old")

\* a run that found the pins of the environment in another order, relocked
\* and returned
C14_Witness ==
    /\ Returned
    /\ Len(PinsOf(Stored0)) = 2
    /\ Range(PinsOf(Stored0)) = Range(PinsOf(directs))
    /\ PinsOf(Stored0) # PinsOf(directs)
    /\ After("zip_subs") = "lock"
    /\ InEvents("write_text")

\* ------------------------------------------------ claims on the guard order

\* the steps of check_compilation in the order of its lines 68-92
GuardChain ==
    <<"get_compilation", "search_uv", "get_uv_version", "compile_nodeps",
      "zip_subs", "search_directs", "compile_full">>

\* what the run did before it called lock or returned the stored fragment
BeforeOutcome ==
    LET ends == { k \in 1..Len(events) : events[k] \in {"lock", "return_old"} }
    IN  IF ends = {} THEN events
        ELSE SubSeq(events, 1, (CHOOSE k \in ends : \A j \in ends : k <= j) - 1)

\* C15 (guard order and least work): in every run the steps taken before the
\* call of lock or the return are the first steps of the chain store read,
\* header match, version probe, no-deps compile, pin comparison, direct-name
\* search, full compile, in that order; the full fragment of the check is
\* compiled only when the stored fragment is there, carries the version the
\* probe reports, agrees with the fresh pins at every compared place and has
\* a line for every direct name; and a run that returns the stored fragment
\* has called compile once without and once with dependencies, has not
\* called lock and has written nothing.
C15_GuardOrder ==
    /\ Len(BeforeOutcome) <= Len(GuardChain)
    /\ BeforeOutcome = SubSeq(GuardChain, 1, Len(BeforeOutcome))
    /\ InEvents("compile_full")
          => /\ Stored0 # <<>>
             /\ StoredVersionMatches
             /\ ~SubmoduleMismatch(Stored0, directs)
             /\ ~DirectMissing(Stored0, directs)
    /\ InEvents("return_old")
          => /\ Count("compile_nodeps") = 1
             /\ Count("compile_full") = 1
             /\ Count("compile") = 0
             /\ ~InEvents("lock")
             /\ ~InEvents("write_text")
             /\ fs = fs0

\* a run that went through the whole chain and returned the stored fragment
C15_Witness ==
    /\ Returned
    /\ events = GuardChain \o <<"return_old">>
    /\ ret = Stored0
    /\ fs = fs0

\* ------------------------------------------------------ one call after another
(***************************************************************************)
(* A sequence of calls of check_compilation and lock, each in either mode, *)
(* in one environment: when a call has ended, by a return or by an         *)
(* exception, the next one begins with the store files the calls before it *)
(* have left.                                                              *)
(***************************************************************************)

\* the most calls of a sequence
MaxCalls == 2

\* the environments of the sequences: Base, and for each part of Base one
\* change of it
CallEnvs ==
    { Base,
      [Base EXCEPT !.uv = "0.2.0"],
      [Base EXCEPT !.subs = Append(Base.subs, <<"Y", "A">>)],
      [Base EXCEPT !.foo = V101],
      [Base EXCEPT !.bar = TRUE],
      [Base EXCEPT !.nodeps = <<"a", ".", "b", "==">> \o V10 \o <<NL>>] }

\* the stores the first call may find
CallStores ==
    {NoStore}
    \cup { LockedStore(e, LockPairs) : e \in CallEnvs }
    \cup { LockedStore(e, WiderPairs) : e \in CallEnvs }
    \cup { LegacyStore(e) : e \in CallEnvs }

InitCalls ==
    /\ fs \in CallStores
    /\ env \in CallEnvs
    /\ sys \in SysEnvs
    /\ pc = "start"
    /\ high = FALSE
    /\ old = <<>>
    /\ directs = <<>>
    /\ old_directs = <<>>
    /\ sys_compilation = <<>>
    /\ lock_contents = <<>>
    /\ n = 0
    /\ ret = <<>>
    /\ raised = ""
    /\ fs0 = fs
    /\ events = <<>>
    /\ call = <<>>
    /\ calls = <<>>

\* the call has returned and the next call is about to begin; a call that
\* an exception ended has left the store files as they were, so the call
\* after it begins like a first call
NextCall ==
    /\ pc = "done"
    /\ raised = ""
    /\ Len(calls) < MaxCalls - 1
    /\ calls' = Append(calls, [high |-> high, ret |-> ret, raised |-> raised,
                               events |-> events])
    /\ pc' = "start"
    /\ old' = <<>>
    /\ directs' = <<>>
    /\ old_directs' = <<>>
    /\ sys_compilation' = <<>>
    /\ lock_contents' = <<>>
    /\ n' = 0
    /\ ret' = <<>>
    /\ raised' = ""
    /\ fs0' = fs
    /\ events' = <<>>
    /\ UNCHANGED <<fs, env, sys, high, call>>

\* lock(h), called on its own: lines 100-102
LockCall(h) ==
    /\ pc = "start"
    /\ high' = h
    /\ EnterLock(<<>>, <<>>)
    /\ UNCHANGED <<fs, env, sys, old, directs, old_directs, ret, raised, fs0, call, calls>>

NextCalls ==
    \/ Next
    \/ NextCall
    \/ \E h \in BOOLEAN : LockCall(h)

SpecCalls == InitCalls /\ [][NextCalls]_vars

\* the call is one of check_compilation
IsCheck(evs) == evs # <<>> /\ evs[1] = "get_compilation"

\* the call before the present one
LastCall == calls[Len(calls)]

\* the present call is one of check_compilation that follows a call of
\* check_compilation in the same mode that returned
SecondCheck ==
    /\ calls # <<>>
    /\ IsCheck(events)
    /\ IsCheck(LastCall.events)
    /\ LastCall.raised = ""
    /\ LastCall.high = high

\* C16 (convergence): a call of check_compilation that follows, in the same
\* environment and mode, a call of check_compilation that returned, does not
\* call lock, leaves the store files as they are, and returns the fragment
\* the call before it returned.
C16_Convergence ==
    SecondCheck
        => /\ ~InEvents("lock")
           /\ fs = fs0
           /\ (Returned => ret = LastCall.ret)

\* ------------------------------------------------- a resolver that may drift
(***************************************************************************)
(* Two runs of the resolver on the same inputs need not print the same:    *)
(* the package index may publish a release of foo between them.  One call  *)
(* of check_compilation or lock, during which that happens at most once.   *)
(***************************************************************************)

\* the index publishes a release of foo while the call is running
Drift ==
    /\ pc # "done"
    /\ env.foo = Base.foo
    /\ \E v \in FooVersions \ {Base.foo} : env' = [env EXCEPT !.foo = v]
    /\ UNCHANGED <<fs, sys, pc, high, old, directs, old_directs, sys_compilation,
                   lock_contents, n, ret, raised, fs0, events, call, calls>>

NextDrift ==
    \/ Next
    \/ Drift
    \/ \E h \in BOOLEAN : LockCall(h)

SpecDrift == InitCalls /\ [][NextDrift]_vars

\* C17 (the fragment returned is the fragment stored): whenever a call of
\* check_compilation or lock returns, the fragment it returns is the one the
\* store file of its mode holds under the key of the current platform and
\* Python version, also when the resolver does not print the same on every
\* run.
C17_ReturnedIsStored ==
    Returned => ret = get_compilation(fs, sys[1], sys[2], high)

\* ---------------------------------------------------- claims on the two files

\* the keys of the members of a store file
KeysOf(file) == { file.doc[k][1] : k \in 1..Len(file.doc) }

\* the key ends in _high
EndsHigh(key) == Len(key) >= 2 /\ SubSeq(key, Len(key) - 1, Len(key)) = <<"_", "high">>

\* C18 (mode isolation and wholesale rewrite): once the lock of a call has
\* written, the store file of its mode holds one member for each key of
\* PLATFORMS x PYTHON_VERSIONS in that mode and no other member, whatever it
\* held before, and the store file of the other mode is as it was when the
\* call began; and after any sequence of calls of check_compilation and lock
\* every key of lock-high.json ends in _high and no key of lock.json does.
C18_ModeIsolation ==
    /\ InEvents("write_text")
          => /\ KeysOf(LockFile) = AllKeys
             /\ Len(LockFile.doc) = Cardinality(AllKeys)
             /\ fs[get_lockfile(~high)] = fs0[get_lockfile(~high)]
    /\ \A path \in Paths : \A key \in KeysOf(fs[path]) : EndsHigh(key) <=> ModeOf(path)

\* a relock in the high mode, after a call in the other mode had written
\* lock.json, of a store that held keys of a Python version lock does not
\* go through
C18_Witness ==
    /\ InEvents("write_text")
    /\ high
    /\ calls # <<>>
    /\ ~LastCall.high
    /\ \E k \in 1..Len(LastCall.events) : LastCall.events[k] = "write_text"
    /\ ~(KeysOf(LockFile0) \subseteq AllKeys)
    /\ KeysOf(LockFile) = AllKeys
    /\ fs[get_lockfile(FALSE)] = fs0[get_lockfile(FALSE)]

====
